---- MODULE Spec2Model ----
(***************************************************************************)
(* PhloxAR/color.py: the Color palette and its grayscale reductions, the   *)
(* ColorCurve lookup table and the ColorMap gradient lookup.               *)
(*                                                                         *)
(* Python floats are IEEE-754 binary64.  They are modelled exactly (53-bit *)
(* significand, round to nearest, ties to even) on top of natural numbers  *)
(* kept as little-endian sequences of 14-bit limbs, because the results of *)
(* int() on a float depend on the last bit.  The exponent range is not     *)
(* modelled (no overflow or underflow happens for the values used).        *)
(***************************************************************************)
EXTENDS Integers, Sequences, FiniteSets

\* -------------------------------------------------------------------------
\* Natural numbers of any size: <<>> is 0, limb 1 is the least significant.
\* -------------------------------------------------------------------------
LimbBits == 14

Base == 2^LimbBits

Limb(a, i) == IF i <= Len(a) THEN a[i] ELSE 0

\* a without its leading zero limbs
RECURSIVE BTrim(_)
BTrim(a) ==
    IF a = <<>> THEN <<>>
    ELSE IF a[Len(a)] = 0 THEN BTrim(SubSeq(a, 1, Len(a) - 1))
    ELSE a

\* for 0 <= n < Base^3
BFromInt(n) == BTrim(<<n % Base, (n \div Base) % Base, n \div (Base * Base)>>)

\* for a < Base^3
BToInt(a) == Limb(a, 1) + Base * Limb(a, 2) + Base * Base * Limb(a, 3)

RECURSIVE BCmpAt(_, _, _)
BCmpAt(a, b, i) ==
    IF i = 0 THEN 0
    ELSE IF Limb(a, i) > Limb(b, i) THEN 1
    ELSE IF Limb(a, i) < Limb(b, i) THEN -1
    ELSE BCmpAt(a, b, i - 1)

\* -1, 0 or 1 as a < b, a = b or a > b
BCmp(a, b) == BCmpAt(a, b, IF Len(a) > Len(b) THEN Len(a) ELSE Len(b))

RECURSIVE BAddAt(_, _, _, _)
BAddAt(a, b, i, c) ==
    IF i > Len(a) /\ i > Len(b)
    THEN (IF c = 0 THEN <<>> ELSE <<c>>)
    ELSE LET t == Limb(a, i) + Limb(b, i) + c
         IN  <<t % Base>> \o BAddAt(a, b, i + 1, t \div Base)

BAdd(a, b) == BAddAt(a, b, 1, 0)

RECURSIVE BSubAt(_, _, _, _)
BSubAt(a, b, i, c) ==
    IF i > Len(a) THEN <<>>
    ELSE LET t == Limb(a, i) - Limb(b, i) - c
         IN  IF t < 0 THEN <<t + Base>> \o BSubAt(a, b, i + 1, 1)
             ELSE <<t>> \o BSubAt(a, b, i + 1, 0)

\* a - b, for a >= b
BSub(a, b) == BTrim(BSubAt(a, b, 1, 0))

RECURSIVE BMulSmallAt(_, _, _, _)
BMulSmallAt(a, d, i, c) ==
    IF i > Len(a) THEN (IF c = 0 THEN <<>> ELSE <<c>>)
    ELSE LET t == a[i] * d + c
         IN  <<t % Base>> \o BMulSmallAt(a, d, i + 1, t \div Base)

\* a * d, for 0 <= d <= Base
BMulSmall(a, d) == IF d = 0 THEN <<>> ELSE BMulSmallAt(a, d, 1, 0)

RECURSIVE BMul(_, _)
BMul(a, b) ==
    IF b = <<>> \/ a = <<>> THEN <<>>
    ELSE BAdd(BMulSmall(a, b[1]), <<0>> \o BMul(a, Tail(b)))

Zeros(n) == [i \in 1..n |-> 0]

\* a * 2^k
BShl(a, k) ==
    IF a = <<>> THEN <<>>
    ELSE Zeros(k \div LimbBits) \o BMulSmall(a, 2^(k % LimbBits))

\* a \div 2^k
BShr(a, k) ==
    LET n == k \div LimbBits
        s == k % LimbBits
    IN  IF n >= Len(a) THEN <<>>
        ELSE LET hi == SubSeq(a, n + 1, Len(a))
             IN  BTrim([i \in 1..Len(hi) |->
                          (hi[i] \div 2^s) + (Limb(hi, i + 1) % 2^s) * 2^(LimbBits - s)])

\* the number of bits of n, for 0 <= n < Base
IntBitLen(n) ==
    IF n = 0 THEN 0 ELSE CHOOSE k \in 1..LimbBits : 2^(k - 1) <= n /\ n < 2^k

BBitLen(a) ==
    IF a = <<>> THEN 0 ELSE LimbBits * (Len(a) - 1) + IntBitLen(a[Len(a)])

BIsOdd(a) == a # <<>> /\ a[1] % 2 = 1

\* the number of trailing zero bits of n, for 0 < n < Base
IntTrailingZeros(n) ==
    CHOOSE k \in 0..(LimbBits - 1) : n % 2^k = 0 /\ n % 2^(k + 1) # 0

\* the number of trailing zero bits of a # 0
RECURSIVE BTrailingZeros(_)
BTrailingZeros(a) ==
    IF a[1] = 0 THEN LimbBits + BTrailingZeros(Tail(a))
    ELSE IntTrailingZeros(a[1])

\* the largest g with g * d <= cur, for cur < d * Base and the top limb of d
\* at least Base / 2: the quotient of the top limbs is g, g + 1 or g + 2
BDigit(cur, d) ==
    LET m   == Len(d)
        est == (Limb(cur, m + 1) * Base + Limb(cur, m)) \div d[m]
        g   == IF est > Base - 1 THEN Base - 1 ELSE est
    IN  IF BCmp(BMulSmall(d, g), cur) <= 0 THEN g
        ELSE IF BCmp(BMulSmall(d, g - 1), cur) <= 0 THEN g - 1
        ELSE g - 2

\* long division by d, from limb i of n down: q the quotient so far, r the
\* remainder so far
RECURSIVE BDivLoop(_, _, _, _, _)
BDivLoop(n, d, i, q, r) ==
    IF i = 0 THEN <<BTrim(q), r>>
    ELSE LET cur == BTrim(<<n[i]>> \o r)
             g   == BDigit(cur, d)
             q1  == <<g>> \o q
             r1  == BSub(cur, BMulSmall(d, g))
         IN  IF Len(q1) > 0 /\ Len(r1) >= 0
             THEN BDivLoop(n, d, i - 1, q1, r1)
             ELSE <<>>

\* <<n \div d, whether d divides n>>, for d # 0
BDivMod(n, d) ==
    LET s  == LimbBits - IntBitLen(d[Len(d)])
        ns == BShl(n, s)
        ds == BShl(d, s)
        qr == IF Len(ns) >= 0 /\ Len(ds) > 0
              THEN BDivLoop(ns, ds, Len(ns), <<>>, <<>>)
              ELSE <<>>
    IN  <<qr[1], qr[2] = <<>> >>

\* -------------------------------------------------------------------------
\* binary64: the value s * m * 2^e with m odd (or m = 0), at most Precision
\* bits in m
\* -------------------------------------------------------------------------
Precision == 53

FZero == [s |-> 1, m |-> <<>>, e |-> 0]

Canonical(s, m, e) ==
    IF m = <<>> THEN FZero
    ELSE LET tz == BTrailingZeros(m)
         IN  [s |-> s, m |-> BShr(m, tz), e |-> e + tz]

\* s * (q + d) * 2^e rounded to nearest, ties to even, where 0 <= d < 1 and
\* sticky says d # 0; with sticky, q has more than Precision bits
RoundBig(s, q, sticky, e) ==
    LET len == BBitLen(q)
    IN  IF len <= Precision THEN Canonical(s, q, e)
        ELSE LET t    == len - Precision
                 mant == BShr(q, t)
                 low  == BSub(q, BShl(mant, t))
                 cmp  == BCmp(low, BShl(<<1>>, t - 1))
                 up   == cmp > 0 \/ (cmp = 0 /\ (sticky \/ BIsOdd(mant)))
             IN  Canonical(s, IF up THEN BAdd(mant, <<1>>) ELSE mant, e + t)

FromInt(n) == Canonical(IF n < 0 THEN -1 ELSE 1, BFromInt(IF n < 0 THEN -n ELSE n), 0)

FIsZero(a) == a.m = <<>>

FNeg(a) == IF FIsZero(a) THEN a ELSE [a EXCEPT !.s = -a.s]

\* the exact sum of two floats as <<sign, magnitude, exponent>>
ExactSum(a, b) ==
    LET e  == IF a.e < b.e THEN a.e ELSE b.e
        xa == BShl(a.m, a.e - e)
        xb == BShl(b.m, b.e - e)
        c  == BCmp(xa, xb)
    IN  IF a.s = b.s THEN <<a.s, BAdd(xa, xb), e>>
        ELSE IF c >= 0 THEN <<a.s, BSub(xa, xb), e>>
        ELSE <<b.s, BSub(xb, xa), e>>

FAdd(a, b) ==
    IF FIsZero(a) THEN b
    ELSE IF FIsZero(b) THEN a
    ELSE LET x == ExactSum(a, b) IN RoundBig(x[1], x[2], FALSE, x[3])

FSub(a, b) == FAdd(a, FNeg(b))

FMul(a, b) ==
    IF FIsZero(a) \/ FIsZero(b) THEN FZero
    ELSE RoundBig(a.s * b.s, BMul(a.m, b.m), FALSE, a.e + b.e)

\* a / b for b # 0
FDiv(a, b) ==
    IF FIsZero(a) THEN FZero
    ELSE IF b.m = <<1>> THEN [s |-> a.s * b.s, m |-> a.m, e |-> a.e - b.e]
    ELSE LET k  == Precision + 2 + BBitLen(b.m) - BBitLen(a.m)
             qr == BDivMod(BShl(a.m, k), b.m)
         IN  RoundBig(a.s * b.s, qr[1], ~qr[2], a.e - b.e - k)

\* -1, 0 or 1 as a < b, a = b or a > b
FCmp(a, b) ==
    IF FIsZero(a) /\ FIsZero(b) THEN 0
    ELSE IF FIsZero(a) THEN -b.s
    ELSE IF FIsZero(b) THEN a.s
    ELSE LET x == ExactSum(a, FNeg(b))
         IN  IF x[2] = <<>> THEN 0 ELSE x[1]

\* int(a): towards zero
FTrunc(a) ==
    IF FIsZero(a) THEN 0
    ELSE IF a.e >= 0 THEN a.s * BToInt(BShl(a.m, a.e))
    ELSE a.s * BToInt(BShr(a.m, -a.e))

\* the float literal num/den of the source text, correctly rounded
FLit(num, den) == FDiv(FromInt(num), FromInt(den))

FOne == FromInt(1)

\* -------------------------------------------------------------------------
\* class Color
\* -------------------------------------------------------------------------
BLACK == <<0, 0, 0>>
WHITE == <<255, 255, 255>>
BLUE == <<0, 0, 255>>
YELLOW == <<255, 255, 0>>
RED == <<255, 0, 0>>
VIOLET == <<181, 126, 220>>
ORANGE == <<255, 165, 0>>
GREEN == <<0, 128, 0>>
GRAY == <<128, 128, 128>>
IVORY == <<255, 255, 240>>
BEIGE == <<245, 245, 220>>
WHEAT == <<245, 222, 179>>
TAN == <<210, 180, 140>>
KHAKI == <<195, 176, 145>>
SILVER == <<192, 192, 192>>
CHARCOAL == <<70, 70, 70>>
NAVYBLUE == <<0, 0, 128>>
ROYALBLUE == <<8, 76, 158>>
MEDIUMBLUE == <<0, 0, 205>>
AZURE == <<0, 127, 255>>
CYAN == <<0, 255, 255>>
AQUAMARINE == <<127, 255, 212>>
TEAL == <<0, 128, 128>>
FORESTGREEN == <<34, 139, 34>>
OLIVE == <<128, 128, 0>>
LIME == <<191, 255, 0>>
GOLD == <<255, 215, 0>>
SALMON == <<250, 128, 114>>
HOTPINK == <<252, 15, 192>>
FUCHSIA == <<255, 119, 255>>
PUCE == <<204, 136, 153>>
PLUM == <<132, 49, 121>>
INDIGO == <<75, 0, 130>>
MAROON == <<128, 0, 0>>
CRIMSON == <<220, 20, 60>>
DEFAULT == <<0, 0, 0>>

\* Color.colors; Python index r is colors[r + 1] here
colors ==
    << BLACK, WHITE, BLUE, YELLOW, RED, VIOLET, ORANGE, GREEN, GRAY, IVORY,
       BEIGE, WHEAT, TAN, KHAKI, SILVER, CHARCOAL, NAVYBLUE, ROYALBLUE,
       MEDIUMBLUE, AZURE, CYAN, AQUAMARINE, TEAL, FORESTGREEN, OLIVE, LIME,
       GOLD, SALMON, HOTPINK, FUCHSIA, PUCE, PLUM, INDIGO, MAROON, CRIMSON,
       DEFAULT >>

\* seq[i] of Python for 0 <= i < len(seq)
At(seq, i) == seq[i + 1]

\* random.randint(a, b): any integer a <= r <= b
RandIntFromZero(a, b) == 0..b

RandInt(a, b) == a..b

Max3(c) ==
    IF c[1] >= c[2] /\ c[1] >= c[3] THEN c[1]
    ELSE IF c[2] >= c[3] THEN c[2] ELSE c[3]

Min3(c) ==
    IF c[1] <= c[2] /\ c[1] <= c[3] THEN c[1]
    ELSE IF c[2] <= c[3] THEN c[2] ELSE c[3]

\* int((color[0] + color[1] + color[2]) / 3), / being the true division
average(color) == FTrunc(FDiv(FromInt(color[1] + color[2] + color[3]), FromInt(3)))

lightnessNoHalving(rgb) == FTrunc(FromInt(Max3(rgb) + Min3(rgb)))

\* int((max(rgb) + min(rgb)) / 2)
lightness(rgb) == FTrunc(FDiv(FromInt(Max3(rgb) + Min3(rgb)), FromInt(2)))

\* the literals 0.21, 0.71 and 0.07
F021 == FLit(21, 100)

F071 == FLit(71, 100)

F007 == FLit(7, 100)

luminosityBGR(rgb) ==
    FTrunc(FAdd(FAdd(FMul(F021, FromInt(rgb[3])), FMul(F071, FromInt(rgb[2]))),
                FMul(F007, FromInt(rgb[1]))))

\* int((0.21 * rgb[0] + 0.71 * rgb[1] + 0.07 * rgb[2]))
luminosity(rgb) ==
    FTrunc(FAdd(FAdd(FMul(F021, FromInt(rgb[1])), FMul(F071, FromInt(rgb[2]))),
                FMul(F007, FromInt(rgb[3]))))

\* -------------------------------------------------------------------------
\* the state: the ColorCurve and the ColorMap under construction or in
\* use, and the call that has just run (its arguments and its outcome)
\* -------------------------------------------------------------------------
VARIABLES curve, cmap, call

vars == <<curve, cmap, call>>

Idle == [op |-> "none"]

\* ColorCurve.curve before __init__ (the class attribute '')
NoCurve == <<>>

NoMap == [built |-> FALSE]

Init ==
    /\ curve = NoCurve
    /\ cmap = NoMap
    /\ call = Idle

\* the caller takes the outcome; the next call can start
Return ==
    /\ call.op # "none"
    /\ call' = Idle
    /\ UNCHANGED <<curve, cmap>>

\* the RGB triples the grayscale reductions are called with
Channels == {0, 5, 10, 15, 30, 128, 200, 255}

Triples == {<<r, g, b>> : r \in Channels, g \in Channels, b \in Channels}

Random ==
    /\ call.op = "none"
    /\ \E r \in RandInt(1, Len(colors) - 1) :
          call' = [op |-> "random", r |-> r, val |-> At(colors, r)]
    /\ UNCHANGED <<curve, cmap>>

Average ==
    /\ call.op = "none"
    /\ \E c \in Triples : call' = [op |-> "average", arg |-> c, val |-> average(c)]
    /\ UNCHANGED <<curve, cmap>>

Lightness ==
    /\ call.op = "none"
    /\ \E c \in Triples : call' = [op |-> "lightness", arg |-> c, val |-> lightness(c)]
    /\ UNCHANGED <<curve, cmap>>

Luminosity ==
    /\ call.op = "none"
    /\ \E c \in Triples : call' = [op |-> "luminosity", arg |-> c, val |-> luminosity(c)]
    /\ UNCHANGED <<curve, cmap>>

NextColor == Random \/ Average \/ Lightness \/ Luminosity \/ Return

SpecColor == Init /\ [][NextColor]_vars

\* -------------------------------------------------------------------------
\* class ColorCurve
\*
\* UnivariateSpline is scipy's.  A spline object is modelled by the values it
\* takes: the ramp from y0 at x = 0 to y1 at x = 255, with y0 and y1 anywhere
\* around 0..255 (a spline is not confined to the range of its control
\* points); the values are kept as integers.
\* -------------------------------------------------------------------------
CurveLen == 256

\* np.linspace(0, 255, 256)
interval == [i \in 1..CurveLen |-> i - 1]

SplineEnds == {-12, 0, 64, 200, 255, 270}

Splines == [y0 : SplineEnds, y1 : SplineEnds]

\* spline(x)
SplineAt(sp, x) == sp.y0 + ((sp.y1 - sp.y0) * x) \div (CurveLen - 1)

\* spline(interval)
Sample(sp) == [i \in 1..CurveLen |-> SplineAt(sp, interval[i])]

IntMin(a, b) == IF a < b THEN a ELSE b

IntMax(a, b) == IF a > b THEN a ELSE b

\* np.maximum(np.minimum(ys, 255), 0)
Clamp(ys) == [i \in 1..Len(ys) |-> IntMax(IntMin(ys[i], 255), 0)]

\* the control points ColorCurve is called with
PointLists ==
    { << <<0, 0>>, <<64, 40>>, <<128, 150>>, <<255, 255>> >>,
      << <<0, 0>>, <<50, 30>>, <<100, 120>>, <<200, 230>>, <<255, 255>> >>,
      << <<0, 0>>, <<128, 128>>, <<255, 255>> >>,
      << <<0, 0>>, <<128, 40>>, <<64, 150>>, <<255, 255>> >> }

\* UnivariateSpline(x, y, s=1) fits a cubic: it takes more than 3 points, with
\* increasing x
FitAccepts(vals) ==
    /\ Len(vals) >= 4
    /\ \A i \in 1..(Len(vals) - 1) : vals[i][1] < vals[i + 1][1]

\* ColorCurve.__init__, type(vals) == UnivariateSpline
CurveOfSpline(vals) == Sample(vals)

\* ColorCurve.__init__, otherwise: spline is what UnivariateSpline returned
CurveOfFit(spline) == Clamp(Sample(spline))

InitCurveSpline ==
    /\ call.op = "none"
    /\ curve = NoCurve
    /\ \E sp \in Splines :
          /\ curve' = CurveOfSpline(sp)
          /\ call' = [op |-> "ColorCurve", path |-> "spline", arg |-> sp, exc |-> "none"]
    /\ UNCHANGED cmap

InitCurvePoints ==
    /\ call.op = "none"
    /\ curve = NoCurve
    /\ \E vals \in PointLists :
          IF FitAccepts(vals)
          THEN \E sp \in Splines :
                  /\ curve' = CurveOfFit(sp)
                  /\ call' = [op |-> "ColorCurve", path |-> "points", arg |-> vals,
                              fit |-> sp, exc |-> "none"]
          ELSE /\ curve' = curve
               /\ call' = [op |-> "ColorCurve", path |-> "points", arg |-> vals,
                           exc |-> "error"]
    /\ UNCHANGED cmap

NextCurve == InitCurveSpline \/ InitCurvePoints \/ Return

SpecCurve == Init /\ [][NextCurve]_vars

\* -------------------------------------------------------------------------
\* class ColorMap
\* -------------------------------------------------------------------------
\* the result of a call: an exception raised, or what was returned
Raise(e) == [exc |-> e]

\* np.array(color).ndim == 1: color is one color, not a sequence of colors
OneColor(color) == color.one

\* ColorMap.__init__: the exception, or the attributes of the new object
ColorMapInitPerColor(color, start_map, end_map) ==
    LET cs == IF OneColor(color)
              THEN << <<color.c[1], color.c[2], color.c[3]>>, WHITE >>
              ELSE color.cs
        value_range == FromInt(end_map - start_map)
        count == FromInt(Len(cs))
    IN  IF FIsZero(count) THEN Raise("ZeroDivisionError")
        ELSE [exc |-> "none",
              self |-> [built |-> TRUE,
                        color |-> cs,
                        start_map |-> FromInt(start_map),
                        end_map |-> FromInt(end_map),
                        value_range |-> value_range,
                        color_distance |-> FDiv(value_range, count)]]

ColorMapInitPairsBlack(color, start_map, end_map) ==
    LET cs == IF OneColor(color)
              THEN << <<color.c[1], color.c[2], color.c[3]>>, BLACK >>
              ELSE color.cs
        value_range == FromInt(end_map - start_map)
        segments == FromInt(Len(cs) - 1)
    IN  IF FIsZero(segments) THEN Raise("ZeroDivisionError")
        ELSE [exc |-> "none",
              self |-> [built |-> TRUE,
                        color |-> cs,
                        start_map |-> FromInt(start_map),
                        end_map |-> FromInt(end_map),
                        value_range |-> value_range,
                        color_distance |-> FDiv(value_range, segments)]]

ColorMapInit(color, start_map, end_map) ==
    LET cs == IF OneColor(color)
              THEN << <<color.c[1], color.c[2], color.c[3]>>, WHITE >>
              ELSE color.cs
        value_range == FromInt(end_map - start_map)
        segments == FromInt(Len(cs) - 1)
    IN  IF FIsZero(segments) THEN Raise("ZeroDivisionError")
        ELSE [exc |-> "none",
              self |-> [built |-> TRUE,
                        color |-> cs,
                        start_map |-> FromInt(start_map),
                        end_map |-> FromInt(end_map),
                        value_range |-> value_range,
                        color_distance |-> FDiv(value_range, segments)]]

\* a[i] of numpy: i in -len..len-1, a negative i counting from the end
IndexOK(a, i) == -Len(a) <= i /\ i < Len(a)

Item(a, i) == IF i < 0 THEN a[Len(a) + i + 1] ELSE a[i + 1]

\* int(color[0]), int(color[1]), int(color[2])
Ints(color) == <<FTrunc(color[1]), FTrunc(color[2]), FTrunc(color[3])>>

Floats(color) == <<FromInt(color[1]), FromInt(color[2]), FromInt(color[3])>>

\* c0*(1-alpha) + c1*alpha, channel by channel
Blend(c0, c1, alpha) ==
    [k \in 1..3 |-> FAdd(FMul(FromInt(c0[k]), FSub(FOne, alpha)),
                         FMul(FromInt(c1[k]), alpha))]

\* the clamping of val to the range of the map
ClampVal(self, val) ==
    IF FCmp(val, self.end_map) > 0 THEN self.end_map
    ELSE IF FCmp(val, self.start_map) < 0 THEN self.start_map
    ELSE val

\* ColorMap.__getitem__ from the division on: the exception, or the color
\* returned with the index computed and the indices of self.color read
Lookup(self, val) ==
    IF FIsZero(self.color_distance) THEN Raise("ZeroDivisionError")
    ELSE LET value == FDiv(FSub(val, self.start_map), self.color_distance)
             index == FTrunc(value)
             alpha == FSub(value, FromInt(index))
         IN  IF index = Len(self.color) - 1
             THEN [exc |-> "none", index |-> index, reads |-> {index},
                   val |-> Ints(Floats(Item(self.color, index)))]
             ELSE IF ~IndexOK(self.color, index)
             THEN [exc |-> "IndexError", index |-> index, reads |-> {index}]
             ELSE IF ~IndexOK(self.color, index + 1)
             THEN [exc |-> "IndexError", index |-> index, reads |-> {index, index + 1}]
             ELSE [exc |-> "none", index |-> index, reads |-> {index, index + 1},
                   val |-> Ints(Blend(Item(self.color, index),
                                      Item(self.color, index + 1), alpha))]

GetItemNoClamp(self, val) == Lookup(self, FromInt(val))

GetItemWeightsSwapped(self, val) ==
    LET r == Lookup(self, ClampVal(self, FromInt(val)))
    IN  IF r.exc = "none" /\ r.index # Len(self.color) - 1
        THEN [r EXCEPT !.val =
                 LET value == FDiv(FSub(ClampVal(self, FromInt(val)), self.start_map),
                                   self.color_distance)
                 IN  Ints(Blend(Item(self.color, r.index + 1), Item(self.color, r.index),
                                FSub(value, FromInt(r.index))))]
        ELSE r

GetItemDegenerateGuarded(self, val) ==
    IF FIsZero(self.color_distance)
    THEN [exc |-> "none", index |-> 0, reads |-> {0}, val |-> Item(self.color, 0)]
    ELSE Lookup(self, ClampVal(self, FromInt(val)))

\* ColorMap.__getitem__
GetItem(self, val) == Lookup(self, ClampVal(self, FromInt(val)))

\* the colors ColorMap is built from: one color, or colors[a:a+n]
MaxColors == 8

Slice(a, n) == [i \in 1..n |-> colors[a + i]]

ColorArgs ==
    {[one |-> TRUE, c |-> c] : c \in {RED, VIOLET}}
        \cup {[one |-> FALSE, cs |-> Slice(a, n)] : a \in {0, 1}, n \in 1..MaxColors}

\* the ends of the range, and the values looked up
MapEnds == {0, 1, 9, 36, 100}

MaxValue == 12

Values == (-1)..MaxValue \cup {50, 99, 100, 101}

InitMap ==
    /\ call.op = "none"
    /\ ~cmap.built
    /\ \E color \in ColorArgs, start_map \in MapEnds, end_map \in MapEnds :
          LET r == ColorMapInit(color, start_map, end_map)
          IN  /\ cmap' = IF r.exc = "none" THEN r.self ELSE cmap
              /\ call' = [op |-> "ColorMap", color |-> color, start_map |-> start_map,
                          end_map |-> end_map, exc |-> r.exc]
    /\ UNCHANGED curve

GetItemMap ==
    /\ call.op = "none"
    /\ cmap.built
    /\ \E val \in Values :
          call' = [op |-> "getitem", arg |-> val, ret |-> GetItem(cmap, val)]
    /\ UNCHANGED <<curve, cmap>>

NextMap == InitMap \/ GetItemMap \/ Return

SpecMap == Init /\ [][NextMap]_vars

\* -------------------------------------------------------------------------
\* Color: the claims
\* -------------------------------------------------------------------------
Grayscale == {"average", "lightness", "luminosity"}

WeightedSum100(c) == 21 * c[1] + 71 * c[2] + 7 * c[3]

RandomSkipsIndexZero ==
    call.op = "random" =>
        /\ call.r \in 1..(Len(colors) - 1)
        /\ call.val = At(colors, call.r)
        /\ \E i \in 1..Len(colors) : colors[i] = call.val

RandomSkipsIndexZeroWitness ==
    /\ call.op = "random"
    /\ call.r = Len(colors) - 1
    /\ call.val = BLACK

\* C6 as stated: random() returns a member of colors at an index in
\* 1..len(colors)-1, so that BLACK is not among the possible results
RandomNeverBlack ==
    call.op = "random" =>
        /\ call.r \in 1..(Len(colors) - 1)
        /\ call.val = At(colors, call.r)
        /\ call.val # BLACK

\* -------------------------------------------------------------------------
\* ColorCurve: the claims
\* -------------------------------------------------------------------------
\* C3: after constructing a ColorCurve from valid input by either path, the
\* curve has exactly 256 entries and every entry lies in [0,255]
CurveInRange ==
    curve # NoCurve =>
        /\ Len(curve) = 256
        /\ \A i \in 1..Len(curve) : 0 <= curve[i] /\ curve[i] <= 255

\* -------------------------------------------------------------------------
\* ColorMap: the claims
\* -------------------------------------------------------------------------
Looked == call.op = "getitem"

Start == FTrunc(cmap.start_map)

End == FTrunc(cmap.end_map)

Count == Len(cmap.color)

First == Item(cmap.color, 0)

Last == Item(cmap.color, Count - 1)

Returned(c) == call.ret.exc = "none" /\ call.ret.val = c

\* C1: with at least 2 colors and start_map < end_map, the lookup at start_map
\* and below returns the first color, the lookup at end_map and above returns
\* the last color
LookupEndpoints ==
    Looked /\ Start < End =>
        /\ call.arg <= Start => Returned(First)
        /\ call.arg >= End => Returned(Last)

\* the position of val in the color sequence, in exact arithmetic: the
\* integer part, and the fraction as PosNum / PosDen
PosDen == End - Start

PosInt == ((call.arg - Start) * (Count - 1)) \div PosDen

PosNum == ((call.arg - Start) * (Count - 1)) % PosDen

\* channel k of color[i]*(1-a) + color[i+1]*a truncated, in exact arithmetic
ExactBlend(i, k) ==
    (Item(cmap.color, i)[k] * (PosDen - PosNum) + Item(cmap.color, i + 1)[k] * PosNum)
        \div PosDen

\* C2: with start_map < end_map and start_map <= v < end_map the lookup returns,
\* per channel, the truncation of color[i]*(1-a) + color[i+1]*a, i and a being the
\* integer and the fractional part of (v - start_map)/color_distance, all in
\* floats (which is the exact blend truncated, or one less);
\* ColorMap([(0,0,0),(255,255,255)], 0, 100)[50] is (127,127,127)
LookupInterpolates ==
    Looked /\ Start < End /\ Start <= call.arg /\ call.arg < End =>
        LET value == FDiv(FSub(FromInt(call.arg), cmap.start_map), cmap.color_distance)
            i     == FTrunc(value)
            a     == FSub(value, FromInt(i))
            c0    == Item(cmap.color, i)
            c1    == Item(cmap.color, i + 1)
        IN  /\ i = PosInt
            /\ 0 <= i /\ i < Count - 1
            /\ call.ret.exc = "none"
            /\ call.ret.index = i
            /\ \A k \in 1..3 :
                  /\ call.ret.val[k] =
                        FTrunc(FAdd(FMul(FromInt(c0[k]), FSub(FOne, a)),
                                    FMul(FromInt(c1[k]), a)))
                  /\ call.ret.val[k] \in {ExactBlend(i, k) - 1, ExactBlend(i, k)}
            /\ (cmap.color = <<BLACK, WHITE>> /\ Start = 0 /\ End = 100 /\ call.arg = 50)
                  => call.ret.val = <<127, 127, 127>>

LookupInterpolatesWitness ==
    /\ Looked
    /\ cmap.color = <<BLACK, WHITE>>
    /\ Start = 0
    /\ End = 100
    /\ call.arg = 50
    /\ Returned(<<127, 127, 127>>)

\* C7: a constructed ColorMap has at least 2 colors: one color given is paired
\* with WHITE, a sequence of colors is kept as it is
MapColors ==
    /\ cmap.built => Count >= 2
    /\ call.op = "ColorMap" =>
          IF call.exc = "none"
          THEN /\ cmap.built
               /\ call.color.one => cmap.color = <<call.color.c, WHITE>>
               /\ ~call.color.one => cmap.color = call.color.cs
          ELSE ~cmap.built

MapColorsWitness ==
    /\ call.op = "ColorMap"
    /\ call.color.one
    /\ cmap.built
    /\ cmap.color = <<RED, WHITE>>

\* C8 as amended: there are count - 1 segments, color_distance is
\* (end_map - start_map)/(count - 1) and has the sign of end_map - start_map:
\* positive for start_map < end_map, negative for start_map > end_map
SegmentWidth ==
    cmap.built =>
        /\ Count - 1 >= 1
        /\ cmap.value_range = FromInt(End - Start)
        /\ cmap.color_distance = FDiv(FromInt(End - Start), FromInt(Count - 1))
        /\ (End - Start) % (Count - 1) = 0 =>
              cmap.color_distance = FromInt((End - Start) \div (Count - 1))
        /\ Start < End <=> FCmp(cmap.color_distance, FZero) > 0
        /\ Start > End <=> FCmp(cmap.color_distance, FZero) < 0

SegmentWidthWitness ==
    /\ cmap.built
    /\ Start > End
    /\ Count = 4
    /\ FCmp(cmap.color_distance, FZero) < 0

\* C8 as stated: there are count - 1 segments, color_distance is
\* (end_map - start_map)/(count - 1), and color_distance > 0 whenever
\* start_map # end_map
SegmentWidthPositive ==
    cmap.built =>
        /\ Count - 1 >= 1
        /\ cmap.color_distance = FDiv(FromInt(End - Start), FromInt(Count - 1))
        /\ Start # End => FCmp(cmap.color_distance, FZero) > 0

\* C9: start_map = end_map is not rejected by the constructor, and a lookup in
\* such a map ends in a division by zero instead of returning a color
DegenerateRange ==
    /\ (call.op = "ColorMap" /\ call.start_map = call.end_map
            /\ (call.color.one \/ Len(call.color.cs) >= 2))
          => /\ call.exc = "none"
             /\ cmap.built
             /\ FIsZero(cmap.color_distance)
    /\ (Looked /\ Start = End)
          => /\ call.ret.exc = "ZeroDivisionError"
             /\ "val" \notin DOMAIN call.ret

DegenerateRangeWitness ==
    /\ Looked
    /\ Start = End
    /\ call.ret.exc = "ZeroDivisionError"

\* C10: with at least 2 colors of channels in 0..255 and start_map # end_map, in
\* either order, every lookup computes an index i with 0 <= i <= count - 1, reads
\* color[i+1] only when i < count - 1, and returns channels in 0..255
LookupInBounds ==
    Looked /\ Start # End =>
        /\ call.ret.exc = "none"
        /\ 0 <= call.ret.index /\ call.ret.index <= Count - 1
        /\ call.ret.reads \subseteq 0..(Count - 1)
        /\ (call.ret.index + 1) \in call.ret.reads => call.ret.index < Count - 1
        /\ \A k \in 1..3 : call.ret.val[k] \in 0..255

LookupInBoundsWitness ==
    /\ Looked
    /\ Start > End
    /\ call.ret.exc = "none"
    /\ call.ret.index = Count - 1
    /\ call.arg > End
====
